---- MODULE Spec2Model ----
(***************************************************************************)
(* Model of the daily ingestion pipeline of src/bot.py (fetch_and_save,    *)
(* fetch_data_by_date, get_google_sheet, clean_number) and of the column   *)
(* lookup of the dashboard in src/app.py.                                  *)
(*                                                                         *)
(* Text labels of the upstream tables are written with ASCII stand-ins:    *)
(*   "TX" = 臺股期貨, "Foreign" = 外資, "ForeignMainland" = 外資及陸資,      *)
(*   "Dealer" = 自營商, "AfterHours" = 盤後, "Regular" = 一般.               *)
(***************************************************************************)
EXTENDS Integers, Sequences, FiniteSets, TLC

(***************************************************************************)
(* Bounds of the model.                                                    *)
(***************************************************************************)
\* number of invocations of fetch_and_save in one behaviour
MaxRuns == 3
\* Python weekday() of the first calendar day of a behaviour (3 = Thursday)
StartDay == 3
\* number of times the calendar advances by one day
MaxDays == 2

(***************************************************************************)
(* Program constants.                                                      *)
(***************************************************************************)
HTTP_OK == 200
MIN_CONTENT == 500
WEEKEND_START == 5
FALLBACK_IDX == 2
NOTIONAL_SCALE == 1000
POINT_VALUE == 200
PRESSURE_UNIT == 10000

\* the two invocations that may overlap (e.g. a scheduled and a manual run)
Procs == {"a", "b"}

(***************************************************************************)
(* Values.  A table cell is a number, a number rendered as text (with      *)
(* thousands separators), a non-numeric text, or an empty cell (pandas     *)
(* NaN).  A Python float is a finite number or NaN.                        *)
(***************************************************************************)
Num(n) == [t |-> "num", v |-> n, s |-> ""]
NumText(n) == [t |-> "numtext", v |-> n, s |-> ""]
Txt(s) == [t |-> "text", v |-> 0, s |-> s]
Empty == [t |-> "nan", v |-> 0, s |-> ""]

F(n) == [nan |-> FALSE, v |-> n]
NaN == [nan |-> TRUE, v |-> 0]

\* `sub in s` for the texts that occur in the modelled tables
Contains(s, sub) ==
    \/ s = sub
    \/ s = "ForeignMainland" /\ sub = "Foreign"

\* `sub in str(c)`
CellContains(c, sub) ==
    CASE c.t = "text" -> Contains(c.s, sub)
      [] c.t \in {"num", "numtext"} -> sub = "-" /\ c.v < 0
      [] OTHER -> FALSE

RowContains(row, sub) == \E i \in 1..Len(row) : CellContains(row[i], sub)

TableContains(tbl, sub) == \E i \in 1..Len(tbl) : RowContains(tbl[i], sub)

\* float(str(x).replace(',', '').strip()), 0.0 when float() raises
clean_number(c) ==
    CASE c.t \in {"num", "numtext"} -> F(c.v)
      [] c.t = "nan" -> NaN
      [] OTHER -> F(0)

\* Python 3 round() of the rational n / d (d > 0): ties go to the even integer
Round(n, d) ==
    LET q == n \div d
        r == n - q * d
    IN  IF 2 * r < d THEN q
        ELSE IF 2 * r > d THEN q + 1
        ELSE IF q % 2 = 0 THEN q ELSE q + 1

\* the first of the indices in S (a loop that breaks on its first match), 0 when
\* S is empty
FirstIndex(S) == IF S = {} THEN 0 ELSE CHOOSE i \in S : \A j \in S : i <= j

(***************************************************************************)
(* 1. Quote fetch (hard dependency), bot.py 58-109.                        *)
(* A response: the request raised, or a status, a body length and the      *)
(* tables pd.read_html finds in the body.  A table is a sequence of rows,  *)
(* a row a sequence of cells; Python's d[k] is row[k + 1] here.            *)
(***************************************************************************)
PASS_RATIO_MILLI == 1382

Failure(why) == [ok |-> FALSE, why |-> why, ohlc |-> <<>>]

\* the double 1.382 is 472 / (1000 * 2^52) less than 1.382
RATIO_DEFICIT == 472

Abs(x) == IF x < 0 THEN -x ELSE x

RECURSIVE Pow2From(_, _)
Pow2From(n, p) == IF 2 * p <= n THEN Pow2From(n, 2 * p) ELSE p

\* the largest power of two that is <= n (n >= 1)
Pow2Le(n) == Pow2From(n, 1)

\* int(x): truncation toward zero of n / 1000
Truncate(n) == IF n >= 0 THEN n \div 1000 ELSE -((-n) \div 1000)

\* the three levels taken with int() alone, without round()
ThreePassTruncated(high_p, low_p) ==
    [mid_pass   |-> Truncate((high_p + low_p) * 500),
     upper_pass |-> Truncate(low_p * 1000 + (high_p - low_p) * PASS_RATIO_MILLI),
     lower_pass |-> Truncate(high_p * 1000 - (high_p - low_p) * PASS_RATIO_MILLI)]

\* mid_pass, upper_pass, lower_pass as int(round(...)) of the three double
\* expressions, for integer prices.  (high + low) / 2 is exact.  The product
\* (high - low) * 1.382 is within one unit in the last place of its exact value,
\* which moves a result only when the exact value is a tie k + 0.5: then the
\* product is one unit short when |high - low| * 472 > 500 * 2^e (2^e the power of
\* two at or below the product), and the sum or difference keeps that unit when
\* it is itself below 2^(e+1); round() then sees a value just off the tie.
ThreePass(high_p, low_p) ==
    LET d == high_p - low_p
        un == low_p * 1000 + d * PASS_RATIO_MILLI
        ln == high_p * 1000 - d * PASS_RATIO_MILLI
        tie == (Abs(d) * PASS_RATIO_MILLI) % 1000 = 500
        p == Pow2Le((Abs(d) * PASS_RATIO_MILLI) \div 1000)
        short == tie /\ Abs(d) * RATIO_DEFICIT > 500 * p
        Kept(n) == Abs(n \div 500) < 4 * p
        Down(n) == n \div 1000
        Up(n) == n \div 1000 + 1
    IN  [mid_pass   |-> Round(high_p + low_p, 2),
         upper_pass |-> IF short /\ Kept(un)
                        THEN (IF d > 0 THEN Down(un) ELSE Up(un))
                        ELSE Round(un, 1000),
         lower_pass |-> IF short /\ Kept(ln)
                        THEN (IF d > 0 THEN Up(ln) ELSE Down(ln))
                        ELSE Round(ln, 1000)]

\* the list built from the selected row d: [open, high, low, close, upper, mid, lower]
OhlcList(d) ==
    LET open_p  == clean_number(d[3])
        high_p  == clean_number(d[4])
        low_p   == clean_number(d[5])
        close_p == clean_number(d[6])
        p == ThreePass(high_p.v, low_p.v)
    IN  IF high_p.nan \/ low_p.nan
        THEN Failure("parse_exception")
        ELSE [ok |-> TRUE, why |-> "ok",
              ohlc |-> <<open_p, high_p, low_p, close_p,
                         p.upper_pass, p.mid_pass, p.lower_pass>>]

\* the request is answered with status 200 and a body of more than 500 bytes
QuoteAccepted(resp) == resp.status = HTTP_OK /\ resp.len > MIN_CONTENT

QuoteResult(resp) ==
    IF resp.raises THEN Failure("request_exception")
    ELSE IF ~QuoteAccepted(resp) THEN Failure("blocked")
    ELSE IF resp.tables = <<>> THEN Failure("parse_exception")
    ELSE LET df == resp.tables[1]
             target == SelectSeq(df, LAMBDA row : ~RowContains(row, "AfterHours"))
         IN  IF target = <<>> THEN Failure("norow")
             ELSE LET d == target[1]
                  IN  IF Len(d) < 3 THEN Failure("parse_exception")
                      ELSE IF CellContains(d[3], "-") THEN Failure("dash")
                      ELSE IF Len(d) < 6 THEN Failure("parse_exception")
                      ELSE IF CellContains(d[6], "-") THEN Failure("dash")
                      ELSE OhlcList(d)

(***************************************************************************)
(* 2. Position fetch (soft dependency), bot.py 114-179.                    *)
(***************************************************************************)
\* DataFrame.ffill(): an empty cell takes the nearest non-empty cell above it
Ffill(tbl) ==
    [i \in 1..Len(tbl) |->
        [j \in 1..Len(tbl[i]) |->
            LET above == {k \in 1..i : tbl[k][j].t # "nan"}
            IN  IF above = {} THEN tbl[i][j]
                ELSE tbl[CHOOSE k \in above : \A m \in above : m <= k][j]]]

\* one side's cost: unchanged (0) unless the volume is > 0; int(round()) raises on NaN
SideCost(vol, amt) ==
    IF vol.nan \/ vol.v <= 0 THEN [raises |-> FALSE, cost |-> 0]
    ELSE IF amt.nan THEN [raises |-> TRUE, cost |-> 0]
    ELSE [raises |-> FALSE,
          cost |-> Round(amt.v * NOTIONAL_SCALE, vol.v * POINT_VALUE)]

\* what the inner try block (148-177) leaves in long_cost, short_cost; completed
\* says that line 175 was reached
Costs(vals) ==
    LET at == FirstIndex({i \in 1..Len(vals) : vals[i].t = "text" /\ vals[i].s = "Foreign"})
        start_idx == at - 1
        idx_base == IF start_idx # -1 /\ (start_idx + 4) < Len(vals)
                    THEN start_idx ELSE FALLBACK_IDX
    IN  IF idx_base + 4 >= Len(vals)
        THEN [long_cost |-> 0, short_cost |-> 0, completed |-> FALSE]
        ELSE LET long_vol  == clean_number(vals[idx_base + 2])
                 long_amt  == clean_number(vals[idx_base + 3])
                 short_vol == clean_number(vals[idx_base + 4])
                 short_amt == clean_number(vals[idx_base + 5])
                 lng == SideCost(long_vol, long_amt)
                 sht == SideCost(short_vol, short_amt)
             IN  IF lng.raises
                 THEN [long_cost |-> 0, short_cost |-> 0, completed |-> FALSE]
                 ELSE IF sht.raises
                 THEN [long_cost |-> lng.cost, short_cost |-> 0, completed |-> FALSE]
                 ELSE [long_cost |-> lng.cost, short_cost |-> sht.cost,
                       completed |-> TRUE]

Unavailable == [long_cost |-> 0, short_cost |-> 0, completed |-> FALSE]

PositionResult(resp) ==
    IF resp.raises \/ resp.status # HTTP_OK \/ resp.tables = <<>> THEN Unavailable
    ELSE LET dfs == resp.tables
             t == FirstIndex({i \in 1..Len(dfs) : TableContains(dfs[i], "Foreign")})
         IN  IF t = 0 THEN Unavailable
             ELSE LET df == Ffill(dfs[t])
                      r == FirstIndex({i \in 1..Len(df) : RowContains(df[i], "TX")
                                                          /\ RowContains(df[i], "Foreign")})
                  IN  IF r = 0 THEN Unavailable ELSE Costs(df[r])

(***************************************************************************)
(* 3. Sell pressure (soft dependency), bot.py 184-206.  The JSON body has  *)
(* a stat field and data rows; row[0] is a time, row[4] the aggregate.     *)
(* pressure is kept in tenths: round(x / 10000, 1) = Round(10 x, 10000)/10 *)
(***************************************************************************)
NoPressure == [pressure |-> 0, found_time |-> FALSE]

PressureResult(resp) ==
    IF resp.raises \/ resp.status # HTTP_OK \/ ~resp.json \/ resp.stat # "OK"
    THEN NoPressure
    ELSE LET i == FirstIndex({k \in 1..Len(resp.data) :
                                 CellContains(resp.data[k][1], "09:00:00")})
         IN  IF i = 0 THEN NoPressure
             ELSE LET row == resp.data[i]
                  IN  IF Len(row) < 5 \/ row[5].t # "numtext" THEN NoPressure
                      ELSE [pressure |-> Round(row[5].v * 10, PRESSURE_UNIT),
                            found_time |-> TRUE]

(***************************************************************************)
(* Upstream responses the runs are checked against.                        *)
(***************************************************************************)
QuoteRow(session, o, h, l, c) ==
    <<Txt("TX"), Num(202611), o, h, l, c, Num(80), Txt(session)>>

QuoteBody(rows) == [raises |-> FALSE, status |-> 200, len |-> 5000, tables |-> <<rows>>]

\* the session of the spec's worked example, listed after its after-hours row
QuoteGood ==
    QuoteBody(<<QuoteRow("AfterHours", Num(17650), Num(17720), Num(17590), Num(17700)),
                QuoteRow("Regular", Num(17700), NumText(17850), Num(17600), Num(17780))>>)

\* schema drift: the high column holds a text, which clean_number turns into 0.0
QuoteDrift ==
    QuoteBody(<<QuoteRow("Regular", Num(17700), Txt("N/A"), Num(17600), Num(17780))>>)

QuoteResponses ==
    { [raises |-> TRUE, status |-> 0, len |-> 0, tables |-> <<>>],
      [raises |-> FALSE, status |-> 503, len |-> 5000, tables |-> <<>>],
      [raises |-> FALSE, status |-> 200, len |-> 120, tables |-> <<>>],
      QuoteBody(<<QuoteRow("AfterHours", Num(17650), Num(17720), Num(17590), Num(17700))>>),
      QuoteBody(<<QuoteRow("Regular", Txt("-"), Txt("-"), Txt("-"), Txt("-"))>>),
      QuoteBody(<<QuoteRow("Regular", Num(17700), Num(17850), Num(17600), Txt("-"))>>),
      QuoteGood,
      QuoteDrift }

PositionRow(product, who, lv, la, sv, sa) ==
    <<Num(1), product, Txt(who), lv, la, sv, sa, Num(0), Num(0)>>

PositionBody(tables) == [raises |-> FALSE, status |-> 200, tables |-> tables]

OtherTable == <<<<Txt("Dealer"), Num(12), Num(34)>>>>

\* today's layout: the label cell reads 外資及陸資, the product cell of the second
\* and third row of a product is empty until ffill
PositionToday ==
    PositionBody(<<OtherTable,
        <<PositionRow(Txt("TX"), "Dealer", Num(500), Num(42000), Num(300), Num(25000)),
          PositionRow(Empty, "ForeignMainland",
                      NumText(1000), NumText(85000), NumText(2000), NumText(172400))>>>>)

\* an older layout: a leading column, and the label cell reads 外資
PositionShifted ==
    PositionBody(<<
        <<<<Txt("x")>> \o PositionRow(Txt("TX"), "Foreign",
                                      Num(1000), Num(85000), Num(2000), Num(172400))>>>>)

\* the short notional cell is empty and nothing above it fills it
PositionPartial ==
    PositionBody(<<
        <<PositionRow(Txt("TX"), "ForeignMainland",
                      Num(1000), Num(85000), Num(2000), Empty)>>>>)

\* a drifted layout: the cells after the label hold net figures, the notional
\* below zero and the short volume below zero
PositionNet ==
    PositionBody(<<
        <<PositionRow(Txt("TX"), "Foreign",
                      Num(1000), NumText(-85000), Num(-300), Num(25000))>>>>)

PositionResponses ==
    { [raises |-> TRUE, status |-> 0, tables |-> <<>>],
      [raises |-> FALSE, status |-> 503, tables |-> <<>>],
      PositionBody(<<>>),
      PositionBody(<<OtherTable>>),
      PositionBody(<<<<PositionRow(Txt("TX"), "Dealer", Num(5), Num(6), Num(7), Num(8)),
                       PositionRow(Txt("TE"), "Foreign", Num(5), Num(6), Num(7), Num(8))>>>>),
      PositionBody(<<<<<<Num(1), Txt("TX"), Txt("ForeignMainland"), Num(1000), Num(85000)>>>>>>),
      PositionToday,
      PositionShifted,
      PositionPartial,
      PositionNet }

PressureBody(stat, data) ==
    [raises |-> FALSE, status |-> 200, json |-> TRUE, stat |-> stat, data |-> data]

PressureRow(time, v) == <<Txt(time), Num(1), Num(2), Num(3), v>>

PressureResponses ==
    { [raises |-> TRUE, status |-> 0, json |-> FALSE, stat |-> "", data |-> <<>>],
      [raises |-> FALSE, status |-> 503, json |-> FALSE, stat |-> "", data |-> <<>>],
      [raises |-> FALSE, status |-> 200, json |-> FALSE, stat |-> "", data |-> <<>>],
      PressureBody("NoData", <<>>),
      PressureBody("OK", <<PressureRow("09:00:05", NumText(12345678))>>),
      PressureBody("OK", <<PressureRow("09:00:00", Txt("--"))>>),
      PressureBody("OK", <<PressureRow("09:00:00", NumText(12345678)),
                           PressureRow("09:00:05", NumText(22345678))>>) }

\* GCP_SERVICE_ACCOUNT_JSON: unset, not usable to open the sheet, usable
Credentials == {"missing", "rejected", "valid"}

(***************************************************************************)
(* State.  store is the data rows of the sheet, shared by all invocations; *)
(* the other variables are per invocation.  log, inflight, store0,         *)
(* quoteWhy, posDone and found record what an invocation did and saw,      *)
(* overlapped whether an invocation ever started while another ran; the    *)
(* program reads none of them.                                             *)
(***************************************************************************)
VARIABLES today, launches, store, pc, target, ohlc, long_cost, short_cost,
          pressure, outcome, log, inflight, store0, quoteWhy, posDone, found,
          overlapped

locals == <<target, ohlc, long_cost, short_cost, pressure>>
history == <<log, inflight, store0, quoteWhy, posDone, found>>
vars == <<today, launches, store, pc, outcome, locals, history, overlapped>>

\* strftime("%Y-%m-%d"): one string per calendar day
DateDb(d) == d

\* a weekend check that lets Saturday through
IsWeekendSundayOnly(d) == d % 7 > WEEKEND_START

\* target_date.weekday() >= 5, with days counted from a Monday
IsWeekend(d) == d % 7 >= WEEKEND_START

\* [data["Date"]] + data["ohlc_list"] + [long_cost, short_cost, pressure]
row_to_write(r) ==
    <<DateDb(target[r])>> \o ohlc[r] \o <<long_cost[r], short_cost[r], pressure[r]>>

\* a key list that misses the last row of the sheet
DatesOfButLast(existing_data) ==
    [i \in 1..(Len(existing_data) - 1) |-> existing_data[i][1]]

\* dates = [row[0] for row in existing_data]
DatesOf(existing_data) == [i \in 1..Len(existing_data) |-> existing_data[i][1]]

\* a writer without the existence check
NeverStored(date, existing_data) == FALSE

\* data["Date"] in dates
AlreadyStored(date, existing_data) ==
    LET dates == DatesOf(existing_data)
    IN  \E i \in DOMAIN dates : dates[i] = date

\* a writer that puts the new row first (insert_row(row, 1))
InsertRowFirst(sheet, row) == <<row>> \o sheet

\* sheet.append_row(row)
AppendRow(sheet, row) == Append(sheet, row)

\* a fetch that goes on after a failed quote
QuoteContinuesAlways(res) == TRUE

\* fetch_data_by_date goes on to the position fetch only with an ohlc list
QuoteContinues(res) == res.ok

\* a store call outside the try block
OnStoreErrorUncaught == "crashed"

\* where an exception of get_all_values or append_row ends (the except at 257)
OnStoreError == "store_error"

Init ==
    /\ today = StartDay
    /\ launches = 0
    /\ store = <<>>
    /\ pc = [r \in Procs |-> "idle"]
    /\ target = [r \in Procs |-> 0]
    /\ ohlc = [r \in Procs |-> <<>>]
    /\ long_cost = [r \in Procs |-> 0]
    /\ short_cost = [r \in Procs |-> 0]
    /\ pressure = [r \in Procs |-> 0]
    /\ outcome = [r \in Procs |-> "none"]
    /\ log = [r \in Procs |-> <<>>]
    /\ inflight = [r \in Procs |-> {}]
    /\ store0 = [r \in Procs |-> <<>>]
    /\ quoteWhy = [r \in Procs |-> "none"]
    /\ posDone = [r \in Procs |-> FALSE]
    /\ found = [r \in Procs |-> FALSE]
    /\ overlapped = FALSE

\* the calendar advances by one day
Tick ==
    /\ today < StartDay + MaxDays
    /\ today' = today + 1
    /\ UNCHANGED <<launches, overlapped, store, pc, outcome, locals, history>>

\* no other invocation is running
Alone(r) == \A q \in Procs \ {r} : pc[q] = "idle"

\* fetch_and_save is invoked: today's date, the weekend check (224-229)
Start(r) ==
    /\ pc[r] = "idle"
    /\ launches < MaxRuns
    /\ launches' = launches + 1
    /\ overlapped' = (overlapped \/ ~Alone(r))
    /\ target' = [target EXCEPT ![r] = today]
    /\ store0' = [store0 EXCEPT ![r] = store]
    /\ IF IsWeekend(today)
       THEN /\ pc' = [pc EXCEPT ![r] = "done"]
            /\ outcome' = [outcome EXCEPT ![r] = "weekend"]
       ELSE /\ pc' = [pc EXCEPT ![r] = "quote"]
            /\ UNCHANGED outcome
    /\ UNCHANGED <<today, store, ohlc, long_cost, short_cost, pressure,
                   log, inflight, quoteWhy, posDone, found>>

\* a requests.get call is made and blocks
Issue(r, kind) ==
    /\ pc[r] = kind
    /\ pc' = [pc EXCEPT ![r] = kind \o "_wait"]
    /\ log' = [log EXCEPT ![r] = Append(@, kind \o "_req")]
    /\ inflight' = [inflight EXCEPT ![r] = @ \cup {kind}]
    /\ UNCHANGED <<today, launches, overlapped, store, outcome, locals,
                   store0, quoteWhy, posDone, found>>

QuoteRequest(r) == Issue(r, "quote")

PositionRequest(r) == Issue(r, "position")

PressureRequest(r) == Issue(r, "pressure")

\* the quote request returns or raises; lines 68-109 and, on None, 259-260
QuoteResponse(r, responses) ==
    /\ pc[r] = "quote_wait"
    /\ \E resp \in responses :
        LET res == QuoteResult(resp)
        IN  /\ quoteWhy' = [quoteWhy EXCEPT ![r] = res.why]
            /\ ohlc' = [ohlc EXCEPT ![r] = res.ohlc]
            /\ log' = [log EXCEPT ![r] =
                          Append(@, IF res.ok THEN "quote_ok" ELSE "quote_failed")]
            /\ IF QuoteContinues(res)
               THEN /\ pc' = [pc EXCEPT ![r] = "position"]
                    /\ UNCHANGED outcome
               ELSE /\ pc' = [pc EXCEPT ![r] = "done"]
                    /\ outcome' = [outcome EXCEPT ![r] = "no_data"]
    /\ inflight' = [inflight EXCEPT ![r] = @ \ {"quote"}]
    /\ UNCHANGED <<today, launches, overlapped, store, target, long_cost, short_cost, pressure,
                   store0, posDone, found>>

\* the position request returns or raises; lines 123-179
PositionResponse(r, responses) ==
    /\ pc[r] = "position_wait"
    /\ \E resp \in responses :
        LET res == PositionResult(resp)
        IN  /\ long_cost' = [long_cost EXCEPT ![r] = res.long_cost]
            /\ short_cost' = [short_cost EXCEPT ![r] = res.short_cost]
            /\ posDone' = [posDone EXCEPT ![r] = res.completed]
    /\ pc' = [pc EXCEPT ![r] = "pressure"]
    /\ log' = [log EXCEPT ![r] = Append(@, "position_done")]
    /\ inflight' = [inflight EXCEPT ![r] = @ \ {"position"}]
    /\ UNCHANGED <<today, launches, overlapped, store, outcome, target, ohlc, pressure,
                   store0, quoteWhy, found>>

\* the pressure request returns or raises; lines 189-217
PressureResponse(r, responses) ==
    /\ pc[r] = "pressure_wait"
    /\ \E resp \in responses :
        LET res == PressureResult(resp)
        IN  /\ pressure' = [pressure EXCEPT ![r] = res.pressure]
            /\ found' = [found EXCEPT ![r] = res.found_time]
    /\ pc' = [pc EXCEPT ![r] = "open"]
    /\ log' = [log EXCEPT ![r] = Append(@, "pressure_done")]
    /\ inflight' = [inflight EXCEPT ![r] = @ \ {"pressure"}]
    /\ UNCHANGED <<today, launches, overlapped, store, outcome, target, ohlc, long_cost,
                   short_cost, store0, quoteWhy, posDone>>

\* get_google_sheet (21-37) and the test of its result (236-237)
GetGoogleSheet(r, credentials) ==
    /\ pc[r] = "open"
    /\ \E cred \in credentials :
        IF cred = "valid"
        THEN /\ pc' = [pc EXCEPT ![r] = "read"]
             /\ UNCHANGED outcome
        ELSE /\ pc' = [pc EXCEPT ![r] = "done"]
             /\ outcome' = [outcome EXCEPT ![r] = "no_sheet"]
    /\ log' = [log EXCEPT ![r] = Append(@, "open")]
    /\ UNCHANGED <<today, launches, overlapped, store, locals,
                   inflight, store0, quoteWhy, posDone, found>>

\* sheet.get_all_values() and the test for the date (249-253)
GetAllValues(r, raising) ==
    /\ pc[r] = "read"
    /\ \E raises \in raising :
        IF raises
        THEN /\ pc' = [pc EXCEPT ![r] = "done"]
             /\ outcome' = [outcome EXCEPT ![r] = OnStoreError]
        ELSE IF AlreadyStored(DateDb(target[r]), store)
        THEN /\ pc' = [pc EXCEPT ![r] = "done"]
             /\ outcome' = [outcome EXCEPT ![r] = "exists"]
        ELSE /\ pc' = [pc EXCEPT ![r] = "append"]
             /\ UNCHANGED outcome
    /\ log' = [log EXCEPT ![r] = Append(@, "read")]
    /\ UNCHANGED <<today, launches, overlapped, store, locals,
                   inflight, store0, quoteWhy, posDone, found>>

\* sheet.append_row(row_to_write) (255-258)
AppendRowCall(r, raising) ==
    /\ pc[r] = "append"
    /\ \E raises \in raising :
        IF raises
        THEN /\ outcome' = [outcome EXCEPT ![r] = OnStoreError]
             /\ UNCHANGED store
        ELSE /\ outcome' = [outcome EXCEPT ![r] = "written"]
             /\ store' = AppendRow(store, row_to_write(r))
    /\ pc' = [pc EXCEPT ![r] = "done"]
    /\ log' = [log EXCEPT ![r] = Append(@, "append")]
    /\ UNCHANGED <<today, launches, overlapped, locals,
                   inflight, store0, quoteWhy, posDone, found>>

\* the process of an invocation exits
Exit(r) ==
    /\ pc[r] = "done"
    /\ pc' = [pc EXCEPT ![r] = "idle"]
    /\ outcome' = [outcome EXCEPT ![r] = "none"]
    /\ target' = [target EXCEPT ![r] = 0]
    /\ ohlc' = [ohlc EXCEPT ![r] = <<>>]
    /\ long_cost' = [long_cost EXCEPT ![r] = 0]
    /\ short_cost' = [short_cost EXCEPT ![r] = 0]
    /\ pressure' = [pressure EXCEPT ![r] = 0]
    /\ log' = [log EXCEPT ![r] = <<>>]
    /\ store0' = [store0 EXCEPT ![r] = <<>>]
    /\ quoteWhy' = [quoteWhy EXCEPT ![r] = "none"]
    /\ posDone' = [posDone EXCEPT ![r] = FALSE]
    /\ found' = [found EXCEPT ![r] = FALSE]
    /\ UNCHANGED <<today, launches, overlapped, store, inflight>>

Fetch(r) ==
    \/ QuoteRequest(r)
    \/ QuoteResponse(r, QuoteResponses)
    \/ PositionRequest(r)
    \/ PositionResponse(r, PositionResponses)
    \/ PressureRequest(r)
    \/ PressureResponse(r, PressureResponses)

Save(r) ==
    \/ GetGoogleSheet(r, Credentials)
    \/ GetAllValues(r, BOOLEAN)
    \/ AppendRowCall(r, BOOLEAN)
    \/ Exit(r)

\* invocations are serialized from outside (one run a day, none overlapping):
\* an invocation starts only when no other is running
Next ==
    \/ Tick
    \/ \E r \in Procs : (Alone(r) /\ Start(r)) \/ Fetch(r) \/ Save(r)

Spec == Init /\ [][Next]_vars

\* every blocking call returns or raises, and the process then goes on
FairSpec == Spec /\ \A r \in Procs : WF_vars(Fetch(r) \/ Save(r))

(***************************************************************************)
(* Invocations that may overlap: nothing in the program keeps a second     *)
(* invocation from starting.  The upstream responses are narrowed to one   *)
(* failing and one good quote and one answer of the other two endpoints.   *)
(***************************************************************************)
RaceQuoteResponses ==
    {resp \in QuoteResponses : resp.raises \/ resp = QuoteGood \/ resp = QuoteDrift}

RaceFetch(r) ==
    \/ QuoteRequest(r)
    \/ QuoteResponse(r, RaceQuoteResponses)
    \/ PositionRequest(r)
    \/ PositionResponse(r, {PositionToday})
    \/ PressureRequest(r)
    \/ PressureResponse(r, {resp \in PressureResponses : resp.raises})

RaceSave(r) ==
    \/ GetGoogleSheet(r, {"valid"})
    \/ GetAllValues(r, BOOLEAN)
    \/ AppendRowCall(r, BOOLEAN)
    \/ Exit(r)

RaceNext ==
    \/ Tick
    \/ \E r \in Procs : Start(r) \/ RaceFetch(r) \/ RaceSave(r)

RaceSpec == Init /\ [][RaceNext]_vars

(***************************************************************************)
(* The dashboard (app.py) reads the sheet with get_all_records: the first  *)
(* row of the sheet names the columns, and a value is looked up under its  *)
(* column's name.                                                          *)
(***************************************************************************)
Header ==
    <<"Date", "Open", "High", "Low", "Close", "Upper_Pass", "Mid_Pass", "Lower_Pass",
      "Divider", "Long_Cost", "Short_Cost", "Sell_Pressure">>

\* last_row.get(name): the cell under the column called name, '' when the row is short
DashboardRead(row, name) ==
    LET col == CHOOSE i \in 1..Len(Header) : Header[i] = name
    IN  IF col <= Len(row) THEN row[col] ELSE ""

(***************************************************************************)
(* Properties.                                                             *)
(***************************************************************************)
\* number of rows of the sheet whose Date is date
RowsFor(date, sheet) == Cardinality({i \in 1..Len(sheet) : sheet[i][1] = date})

IsPrefix(s, t) == Len(s) <= Len(t) /\ SubSeq(t, 1, Len(s)) = s

Running == {r \in Procs : pc[r] # "idle"}

Finished == {r \in Procs : pc[r] = "done"}

StoreReached(r) == outcome[r] \notin {"no_sheet", "store_error"}

\* C1: with serialized invocations, a run whose quote fetch succeeded and whose
\* store calls succeeded ends with exactly one row for its date in the store; a
\* run that finds its date in the store ends in the "already exists" branch and
\* never calls append_row.
C1_Idempotent ==
    \A r \in Finished :
        (quoteWhy[r] = "ok" /\ StoreReached(r)) =>
            /\ RowsFor(DateDb(target[r]), store) = 1
            /\ RowsFor(DateDb(target[r]), store0[r]) >= 1 =>
                   (outcome[r] = "exists" /\ \A i \in DOMAIN log[r] : log[r][i] # "append")

C1_SecondRun ==
    \E r \in Finished :
        /\ outcome[r] = "exists"
        /\ RowsFor(DateDb(target[r]), store0[r]) = 1
        /\ store = store0[r]

\* C2: a run whose quote fetch failed (the request raised, a non-200 status or a
\* short body, no row outside the after-hours session, a dash in the open or
\* close cell, or a parse error) has ended at once: it issued no further request,
\* made no store call, left the store as it was when the run began and carries
\* no position or pressure value.
C2_HardAbort ==
    \A r \in Running :
        quoteWhy[r] \in {"request_exception", "blocked", "norow", "dash", "parse_exception"} =>
            /\ pc[r] = "done"
            /\ outcome[r] = "no_data"
            /\ log[r] = <<"quote_req", "quote_failed">>
            /\ store = store0[r]
            /\ long_cost[r] = 0 /\ short_cost[r] = 0 /\ pressure[r] = 0

C2_HolidayKeepsStore ==
    \E r \in Finished : quoteWhy[r] = "dash" /\ Len(store) >= 1 /\ store = store0[r]

\* C3: every row written by a run whose position fetch did not complete has
\* long_cost = 0 and short_cost = 0, and every row written by a run that found
\* no 09:00:00 pressure entry has sell_pressure = 0.
C3_SoftDegradation ==
    \A r \in Finished :
        outcome[r] = "written" =>
            LET row == store[Len(store)]
            IN  /\ ~posDone[r] => (row[9] = 0 /\ row[10] = 0)
                /\ ~found[r] => row[11] = 0

\* C4: every stored row has positive prices with
\* low <= open <= high and low <= close <= high.
C4_PriceInvariant ==
    \A i \in 1..Len(store) :
        LET open_p == store[i][2].v
            high_p == store[i][3].v
            low_p == store[i][4].v
            close_p == store[i][5].v
        IN  /\ low_p > 0
            /\ low_p <= open_p /\ open_p <= high_p
            /\ low_p <= close_p /\ close_p <= high_p

\* C5: every step keeps the rows already in the store, in their order, and adds
\* at most one row at the end; the store at the start of a run is a prefix of
\* the store at its end, which is longer by 0 or 1.
C5_AppendOnly ==
    /\ [][IsPrefix(store, store') /\ Len(store') <= Len(store) + 1]_vars
    /\ [](\A r \in Finished :
              IsPrefix(store0[r], store) /\ Len(store) <= Len(store0[r]) + 1)

C5_GrewByOne ==
    \E r \in Finished :
        outcome[r] = "written" /\ Len(store0[r]) >= 1 /\ Len(store) = Len(store0[r]) + 1

\* C6: every stored row has the twelve fields of the header, and the value the
\* dashboard reads under Divider is round((open + low + close) / 3).
C6_Schema ==
    \A i \in 1..Len(store) :
        /\ Len(store[i]) = Len(Header)
        /\ DashboardRead(store[i], "Divider")
               = Round(store[i][2].v + store[i][4].v + store[i][5].v, 3)

Wrote == {"written"}
Skipped == {"weekend", "exists"}
Aborted == {"no_sheet", "store_error"}

\* the terminal state of a finished run: wrote, skipped or aborted
Terminal(r) ==
    CASE outcome[r] \in Wrote -> "wrote"
      [] outcome[r] \in Skipped -> "skipped"
      [] outcome[r] = "no_data" /\ quoteWhy[r] \in {"dash", "norow"} -> "skipped"
      [] outcome[r] = "no_data" -> "aborted"
      [] outcome[r] \in Aborted -> "aborted"
      [] OTHER -> "undefined"

\* C7: whatever the weekend check, the three fetches, the opening of the sheet,
\* the read and the append do, a run ends: it reaches one of the terminal states
\* wrote, skipped, aborted, never an uncaught exception, and then the store
\* holds a row for its date only if the run wrote it or it was there before.
C7_TerminalState ==
    /\ [](\A r \in Finished :
              /\ Terminal(r) \in {"wrote", "skipped", "aborted"}
              /\ RowsFor(DateDb(target[r]), store) >= 1 =>
                     (Terminal(r) = "wrote" \/ RowsFor(DateDb(target[r]), store0[r]) >= 1))
    /\ \A r \in Procs : (pc[r] # "idle") ~> (pc[r] = "done")

C7_HandledStoreError ==
    \E r \in Finished : outcome[r] = "store_error" /\ Terminal(r) = "aborted"

\* C8: the store holds two rows for one date only after two invocations
\* overlapped; as long as none overlapped, no date has more than one row.
C8_RaceOnly ==
    (\E i \in 1..Len(store) : RowsFor(store[i][1], store) > 1) => overlapped

C8_TwoRows ==
    /\ Len(store) = 2
    /\ store[1][1] = store[2][1]
    /\ \A r \in Procs : pc[r] = "done" /\ outcome[r] = "written"

FullLog ==
    <<"quote_req", "quote_ok", "position_req", "position_done",
      "pressure_req", "pressure_done", "open", "read", "append">>

\* C9: the requests and store calls of a run are a prefix of quote, position,
\* pressure, open, read, append, each request made only after the one before it
\* has returned (the position request only after a good quote); a run for a
\* weekend date makes none of them; at most one request is in flight.
C9_Ordering ==
    \A r \in Running :
        /\ \/ IsPrefix(log[r], FullLog)
           \/ log[r] = <<"quote_req", "quote_failed">>
        /\ Cardinality(inflight[r]) <= 1
        /\ target[r] % 7 >= WEEKEND_START => log[r] = <<>>

C9_FullRun == \E r \in Finished : log[r] = FullLog

\* C10: a run that ends because its quote request raised or was answered with
\* a non-200 status or a short body has made more than one quote request.
C10_QuoteRetried ==
    \A r \in Finished :
        quoteWhy[r] \in {"request_exception", "blocked"} =>
            Cardinality({i \in DOMAIN log[r] : log[r][i] = "quote_req"}) > 1

\* C11: in every stored row long_cost and short_cost are >= 0.
C11_CostNonNegative ==
    \A i \in 1..Len(store) : store[i][9] >= 0 /\ store[i][10] >= 0

(***************************************************************************)
(* The price bands over a grid of quotes: each run writes into an empty    *)
(* sheet (the bands of a row do not depend on the rows before it), the     *)
(* quote is the worked example or has a low price from LowPrices and a     *)
(* spread of 125 k + j.  Spreads of 250, 750, 1250 make upper_pass and     *)
(* lower_pass ties; an odd high + low makes mid_pass a tie.                *)
(***************************************************************************)
MaxSpreadSteps == 11
MaxOffset == 1

LowPrices == {2, 3, 17600, 17601}

QuoteGrid ==
    { QuoteBody(<<QuoteRow("Regular", Num(l), Num(l + 125 * k + j),
                           Num(l), Num(l + 125 * k + j))>>) :
        l \in LowPrices, k \in 0..MaxSpreadSteps, j \in 0..MaxOffset }

BandFetch(r) ==
    \/ QuoteRequest(r)
    \/ QuoteResponse(r, QuoteGrid \cup {QuoteGood})
    \/ PositionRequest(r)
    \/ PositionResponse(r, {PositionToday})
    \/ PressureRequest(r)
    \/ PressureResponse(r, {resp \in PressureResponses : resp.raises})

BandNext ==
    \/ Tick
    \/ \E r \in Procs :
        (Alone(r) /\ store = <<>> /\ Start(r)) \/ BandFetch(r) \/ RaceSave(r)

BandSpec == Init /\ [][BandNext]_vars

\* the exact values of the three formulas, as numerators over 1000
UpperExact(high_p, low_p) == low_p * 1000 + (high_p - low_p) * 1382
LowerExact(high_p, low_p) == high_p * 1000 - (high_p - low_p) * 1382

\* C12 as amended: in every stored row with low <= high, mid_pass is
\* (high + low) / 2 rounded half-to-even, upper_pass and lower_pass are integers
\* nearest to low + (high - low) * 1.382 and high - (high - low) * 1.382, and
\* lower_pass <= mid_pass <= upper_pass; when also low >= 4 (high - low),
\* upper_pass and lower_pass are those values rounded half-to-even;
\* high = 17850, low = 17600 gives 17725 / 17946 / 17504.
C12_Bands ==
    \A i \in 1..Len(store) :
        LET high_p == store[i][3].v
            low_p == store[i][4].v
            upper_pass == store[i][6]
            mid_pass == store[i][7]
            lower_pass == store[i][8]
        IN  low_p <= high_p =>
              /\ mid_pass = Round(high_p + low_p, 2)
              /\ 2 * Abs(upper_pass * 1000 - UpperExact(high_p, low_p)) <= 1000
              /\ 2 * Abs(lower_pass * 1000 - LowerExact(high_p, low_p)) <= 1000
              /\ lower_pass <= mid_pass /\ mid_pass <= upper_pass
              /\ low_p >= 4 * (high_p - low_p) =>
                    /\ upper_pass = Round(UpperExact(high_p, low_p), 1000)
                    /\ lower_pass = Round(LowerExact(high_p, low_p), 1000)
              /\ (high_p = 17850 /\ low_p = 17600) =>
                    (mid_pass = 17725 /\ upper_pass = 17946 /\ lower_pass = 17504)

C12_ExampleStored ==
    \E i \in 1..Len(store) :
        /\ store[i][2].v = 17700 /\ store[i][3].v = 17850
        /\ store[i][4].v = 17600 /\ store[i][5].v = 17780

\* C12 as claimed: in every stored row with low <= high the three bands are the
\* three formulas under one rounding rule (ties to even in every field),
\* lower_pass <= mid_pass <= upper_pass, and high = 17850, low = 17600 gives
\* 17725 / 17945 / 17505.
C12_BandsAsClaimed ==
    \A i \in 1..Len(store) :
        LET high_p == store[i][3].v
            low_p == store[i][4].v
            upper_pass == store[i][6]
            mid_pass == store[i][7]
            lower_pass == store[i][8]
        IN  low_p <= high_p =>
              /\ mid_pass = Round(high_p + low_p, 2)
              /\ upper_pass = Round(UpperExact(high_p, low_p), 1000)
              /\ lower_pass = Round(LowerExact(high_p, low_p), 1000)
              /\ lower_pass <= mid_pass /\ mid_pass <= upper_pass
              /\ (high_p = 17850 /\ low_p = 17600) =>
                    (mid_pass = 17725 /\ upper_pass = 17945 /\ lower_pass = 17505)

====
